---- MODULE Spec2Model ----
(***************************************************************************)
(* Authentication and session lifecycle of tiled/server/authentication.py: *)
(* the token codec (create_access_token, create_refresh_token,             *)
(* decode_token), the session manager (create_session, slide_session,      *)
(* revoke_session) and the per-request resolver (get_current_principal).   *)
(*                                                                         *)
(* The durable store holds Principal, Identity and Session rows.  Each     *)
(* handler is cut at its store round trips (query, commit), so that        *)
(* handlers served by different workers interleave there.                  *)
(***************************************************************************)
EXTENDS Integers, Sequences, FiniteSets, TLC

\* ------------------------------------------------------------------ bounds
MaxTime == 2          \* the clock runs 0..MaxTime
MaxReq == 2           \* multi-step handler calls in flight at once
MaxCalls == 3         \* create/slide/revoke_session calls of one run
MaxKeys == 3          \* secret keys a deployment has known

\* settings.*_max_age of the deployment (configuration, in clock ticks)
access_token_max_age == 1
refresh_token_max_age == 2
session_max_age == 1

Req == 1..MaxReq
Providers == {"p"}
Ids == {"a", "b"}

VARIABLES
  now,          \* the clock read by datetime.now() / datetime.utcnow()
  secret_keys,  \* settings.secret_keys, first key is the current one
  settings,     \* the other settings: authenticators, anonymous access, API key
  principals,   \* store: Principal rows, id -> [uuid, type]
  identities,   \* store: Identity rows [provider, id, principal_id]
  sessions,     \* store: Session rows, uuid -> row (committed state)
  nuuid,        \* uuids generated so far
  req,          \* the multi-step handler calls in flight, one record per worker
  issued,       \* the refresh tokens the clients hold
  last,         \* the last response of create/slide/revoke_session, with its inputs
  gate,         \* the outcome of the last get_current_principal
  codec,        \* the outcome of the last decode_token of the codec specification
  dead,         \* history: Sessions that were revoked or expired at some time
  logged,       \* history: (provider, id) -> the finished logins' Principal and Session
  slid,         \* history: Session -> slide_session calls that returned a bundle
  calls         \* history: calls started

vars == <<now, secret_keys, settings, principals, identities, sessions, nuuid,
          req, issued, last, gate, codec, dead, logged, slid, calls>>

config == <<secret_keys, settings>>
store == <<principals, identities, sessions, nuuid>>
resolver == <<gate, codec>>

\* ------------------------------------------------------------------ values
\* uuid.hex and uuid.UUID(hex=...): a uuid is a number, its hex form two digits.
Hex(u) == <<u \div 16, u % 16>>
UUID(h) == h[1] * 16 + h[2]

\* A freshly generated uuid (the n-th one of the deployment).
FreshUuid(n) == 17 + n

NoToken ==
  [type |-> "none", key |-> 0, exp |-> 0, sid |-> <<>>,
   sub |-> <<>>, sub_typ |-> "", ids |-> {}]

HTTPException(status, detail, headers) ==
  [status |-> status, detail |-> detail, headers |-> headers]
NoResult == HTTPException(0, "", "")
Ok200 == HTTPException(200, "", "")
Response204 == HTTPException(204, "", "")
\* An exception no handler catches: the framework answers 500.
ServerError == HTTPException(500, "Internal Server Error", "")
credentials_exception ==
  HTTPException(401, "Could not validate credentials", "WWW-Authenticate: Bearer")
SessionExpired ==
  HTTPException(401, "Session has expired. Please re-authenticate.", "")

\* A worker with no call in flight, and the locals of a call.
Idle ==
  [op |-> "idle", pc |-> "idle", provider |-> "", id |-> "", tok |-> NoToken,
   principal |-> 0, session |-> 0, now |-> 0, before |-> 0,
   new |-> FALSE, prior |-> {}, was_dead |-> FALSE, used |-> 0]

\* A response: the call's inputs and locals, and what it returned.
NoResponse ==
  [op |-> "none", provider |-> "", id |-> "", tok |-> NoToken, sid |-> <<>>,
   principal |-> 0, session |-> 0, now |-> 0, before |-> 0,
   new |-> FALSE, prior |-> {}, was_dead |-> FALSE, used |-> 0, cause |-> {},
   result |-> NoResult, access_token |-> NoToken, refresh_token |-> NoToken,
   delete_cookie |-> {}]

Response(r, sid, cause, result, access, refresh) ==
  [op |-> r.op, provider |-> r.provider, id |-> r.id, tok |-> r.tok, sid |-> sid,
   principal |-> r.principal, session |-> r.session, now |-> r.now,
   before |-> r.before, new |-> r.new, prior |-> r.prior, was_dead |-> r.was_dead,
   used |-> r.used,
   cause |-> cause, result |-> result, access_token |-> access,
   refresh_token |-> refresh, delete_cookie |-> {}]

\* ------------------------------------------------------------------ TokenCodec
\* Variant in which the access token also carries the sid of the Session that
\* is being created.
create_access_token_with_sid(data, secret_key, expires_delta) ==
  [type |-> "access", key |-> secret_key, exp |-> now + expires_delta,
   sid |-> Hex(FreshUuid(nuuid)), sub |-> data.sub, sub_typ |-> data.sub_typ,
   ids |-> data.ids]

create_access_token(data, secret_key, expires_delta) ==
  [type |-> "access", key |-> secret_key, exp |-> now + expires_delta,
   sid |-> <<>>, sub |-> data.sub, sub_typ |-> data.sub_typ, ids |-> data.ids]

create_refresh_token(session_id, secret_key, expires_delta) ==
  [type |-> "refresh", key |-> secret_key, exp |-> now + expires_delta,
   sid |-> session_id, sub |-> <<>>, sub_typ |-> "", ids |-> {}]

\* payload["sid"] (lines 323, 357) and payload["sub"] (line 169) raise KeyError
\* on a payload without the claim.
has_sid(payload) == payload.sid # <<>>
has_sub(payload) == payload.sub # <<>>

\* jwt.decode(token, secret_key): the signature is verified first, then exp.
jwt_decode(token, secret_key, t) ==
  IF token.key # secret_key THEN "JWTError"
  ELSE IF token.exp < t THEN "ExpiredSignatureError"
  ELSE "payload"

\* Variant of lines 96-101 without the re-raise: an expired signature is
\* caught with the other JWTError types and the next key is tried.
RECURSIVE decode_from_masking(_, _, _, _)
decode_from_masking(token, keys, i, t) ==
  IF i > Len(keys) THEN "credentials_exception"
  ELSE LET r == jwt_decode(token, keys[i], t)
       IN IF r = "payload" THEN r ELSE decode_from_masking(token, keys, i + 1, t)

\* The loop of lines 92-103 from the i-th key on.
RECURSIVE decode_from(_, _, _, _)
decode_from(token, keys, i, t) ==
  IF i > Len(keys) THEN "credentials_exception"
  ELSE LET r == jwt_decode(token, keys[i], t)
       IN IF r = "JWTError" THEN decode_from(token, keys, i + 1, t) ELSE r

\* Variant without key rotation: only the current key is tried.
decode_token_first_key(token, keys, t) ==
  LET r == jwt_decode(token, keys[1], t)
  IN IF r = "JWTError" THEN "credentials_exception" ELSE r

decode_token(token, keys, t) == decode_from(token, keys, 1, t)

\* How many keys the loop of lines 92-103 hands to jwt.decode, from the i-th on.
RECURSIVE keys_tried(_, _, _, _)
keys_tried(token, keys, i, t) ==
  IF i > Len(keys) THEN Len(keys)
  ELSE IF jwt_decode(token, keys[i], t) = "JWTError"
       THEN keys_tried(token, keys, i + 1, t)
       ELSE i

\* ------------------------------------------------------------------ store
\* db.query(orm.Identity).filter(id).filter(provider): the matching rows.
find_identity(provider, id) ==
  {i \in identities : i.provider = provider /\ i.id = id}

\* principal.identities: the Identity rows linked to a Principal.
identities_of(principal_id) ==
  {[id |-> i.id, idp |-> i.provider] : i \in {j \in identities : j.principal_id = principal_id}}

\* Variant without the unique key: any Identity row is accepted.
unique_identity_unchecked(provider, id) == TRUE

\* The unique key (provider, id) of the identities table.
unique_identity(provider, id) == find_identity(provider, id) = {}

\* orm.Session(principal_id, expiration_time) with the column defaults.
new_session(principal_id, expiration_time) ==
  [principal_id |-> principal_id, expiration_time |-> expiration_time,
   revoked |-> FALSE, refresh_count |-> 0, time_last_refreshed |-> 0 - 1]

\* History: the Sessions that are revoked or past their expiration_time.
DeadNow(ss, t) == {s \in DOMAIN ss : ss[s].revoked \/ ss[s].expiration_time < t}

\* A step that starts no call, and a step that starts one.
Track ==
  /\ dead' = dead \cup DeadNow(sessions', now')
  /\ calls' = calls
Called ==
  /\ calls < MaxCalls
  /\ dead' = dead \cup DeadNow(sessions', now')
  /\ calls' = calls + 1

InFlight(op) == {r \in Req : req[r].op = op}

\* Workers are interchangeable: a new call is taken by the lowest idle one.
Free(r) == req[r].pc = "idle" /\ \A q \in 1..(r - 1) : req[q].pc # "idle"

\* Variant that names the first Principal of the store in every token.
token_data_first(principal_id) ==
  [sub |-> Hex(principals[1].uuid),
   sub_typ |-> principals[1].type,
   ids |-> identities_of(principal_id)]

\* Variant that takes the Identities as they were loaded at line 193, before
\* the Identity of this login was added.
token_data_stale(principal_id) ==
  [sub |-> Hex(principals[principal_id].uuid),
   sub_typ |-> principals[principal_id].type,
   ids |-> {}]

\* Variant that signs with the oldest key of the list.
signing_key_oldest(keys) == keys[Len(keys)]

\* Lines 226, 231, 354, 359: the *first* secret key is used to encode.
signing_key(keys) == keys[1]

\* The claims of an access token (lines 215-222 and 343-350).
token_data(principal_id) ==
  [sub |-> Hex(principals[principal_id].uuid),
   sub_typ |-> principals[principal_id].type,
   ids |-> identities_of(principal_id)]

\* ------------------------------------------------------------------ create_session
\* Variant that never finds the Identity: every login is a first login.
lookup_nothing(provider, id) == {}

\* Lines 180-185: the Identity rows found for (provider, id).
lookup(provider, id) == find_identity(provider, id)

\* Lines 180-186, 201-202: have we seen this Identity before?
create_session_lookup(r, provider, id) ==
  LET found == lookup(provider, id)
      base == [Idle EXCEPT !.op = "create", !.provider = provider, !.id = id,
                           !.prior = logged[<<provider, id>>]]
  IN /\ Free(r)
     /\ IF found = {}
        THEN req' = [req EXCEPT ![r] = [base EXCEPT !.pc = "cs_principal", !.new = TRUE]]
        ELSE req' = [req EXCEPT ![r] =
                  [base EXCEPT !.pc = "cs_session",
                               !.principal = (CHOOSE i \in found : TRUE).principal_id]]
     /\ UNCHANGED <<now, config, store, issued, last, resolver, logged, slid>>
     /\ Called

\* Lines 190-193: a new Principal, committed on its own.
create_session_principal(r) ==
  LET pid == Cardinality(DOMAIN principals) + 1
  IN /\ req[r].pc = "cs_principal"
     /\ principals' = principals @@ (pid :> [uuid |-> FreshUuid(nuuid), type |-> "user"])
     /\ nuuid' = nuuid + 1
     /\ req' = [req EXCEPT ![r].pc = "cs_identity", ![r].principal = pid]
     /\ UNCHANGED <<now, config, identities, sessions, issued, last, resolver, logged, slid>>
     /\ Track

\* Lines 194-200: the Identity linking it, committed; a second row for the same
\* (provider, id) violates the unique key and the commit raises.
create_session_identity(r) ==
  /\ req[r].pc = "cs_identity"
  /\ IF unique_identity(req[r].provider, req[r].id)
     THEN /\ identities' = identities \cup
                {[provider |-> req[r].provider, id |-> req[r].id,
                  principal_id |-> req[r].principal]}
          /\ req' = [req EXCEPT ![r].pc = "cs_session"]
          /\ last' = last
     ELSE /\ identities' = identities
          /\ req' = [req EXCEPT ![r] = Idle]
          /\ last' = Response(req[r], <<>>, {}, ServerError, NoToken, NoToken)
  /\ UNCHANGED <<now, config, principals, sessions, nuuid, issued, resolver, logged, slid>>
  /\ Track

\* Lines 203-239: the Session row, committed, and the token bundle.
create_session_tokens(r) ==
  LET u == FreshUuid(nuuid)
      access == create_access_token(token_data(req[r].principal),
                                    signing_key(secret_keys), access_token_max_age)
      refresh == create_refresh_token(Hex(u), signing_key(secret_keys),
                                      refresh_token_max_age)
  IN /\ req[r].pc = "cs_session"
     /\ sessions' = sessions @@ (u :> new_session(req[r].principal, now + session_max_age))
     /\ nuuid' = nuuid + 1
     /\ slid' = slid @@ (u :> 0)
     /\ req' = [req EXCEPT ![r] = Idle]
     /\ last' = Response([req[r] EXCEPT !.session = u], Hex(u), {}, Ok200, access, refresh)
     /\ issued' = issued \cup {refresh}
     /\ logged' = [logged EXCEPT ![<<req[r].provider, req[r].id>>] =
                      @ \cup {[principal |-> req[r].principal, session |-> u,
                               at |-> now, access_token |-> access]}]
     /\ UNCHANGED <<now, config, principals, identities, resolver>>
     /\ Track

\* ------------------------------------------------------------------ slide_session
\* Variant of line 329 that makes refresh tokens single-use: a Session that
\* has been slid is not slid again.
refused_once_used(ss, s, t) ==
  \/ s \notin DOMAIN ss
  \/ ss[s].revoked
  \/ ss[s].expiration_time < t
  \/ slid[s] >= 1

\* Variant of line 329 that does not look at the expiration_time.
refused_unless_expired(ss, s, t) ==
  (s \notin DOMAIN ss) \/ ss[s].revoked

\* Variant of line 329 that does not look at the revoked flag.
refused_unless_revoked(ss, s, t) ==
  (s \notin DOMAIN ss) \/ (ss[s].expiration_time < t)

\* Variant of lines 330-334 that tells a revoked Session from an expired one.
refusal_by_cause(ss, s, t) ==
  IF s \in DOMAIN ss /\ ss[s].revoked
  THEN HTTPException(401, "Session has been revoked.", "")
  ELSE SessionExpired

\* Variant of line 357 that binds the new refresh token to another session id.
new_session_id_other(payload, s) == Hex(s + 1)

\* Line 329: forgotten or revoked or expired Sessions are not refreshed.
refused(ss, s, t) ==
  (s \notin DOMAIN ss) \/ ss[s].revoked \/ (ss[s].expiration_time < t)

\* Lines 330-334: the error raised for a refused Session.
refusal(ss, s, t) == SessionExpired

\* Line 357: the session id the new refresh token carries.
new_session_id(payload, s) == payload.sid

\* History: which of the three reasons of line 329 applied.
causes(ss, s, t) ==
  (IF s \notin DOMAIN ss THEN {"missing"} ELSE {})
    \cup (IF s \in DOMAIN ss /\ ss[s].revoked THEN {"revoked"} ELSE {})
    \cup (IF s \in DOMAIN ss /\ ss[s].expiration_time < t THEN {"expired"} ELSE {})

\* Variant that writes the whole Session row back as the call loaded it, with
\* the bookkeeping of lines 336-338.
close_with_stale_write(ss, r) ==
  IF r.session \in DOMAIN ss
  THEN [ss EXCEPT ![r.session] =
          [@ EXCEPT !.revoked = FALSE, !.refresh_count = r.before + 1,
                    !.time_last_refreshed = r.now]]
  ELSE ss

\* Variant that does the bookkeeping of lines 336-338 and commits it before
\* the checks.
updated_before_raise(ss, payload, t) ==
  IF has_sid(payload) /\ UUID(payload.sid) \in DOMAIN ss
  THEN [ss EXCEPT ![UUID(payload.sid)] =
          [@ EXCEPT !.refresh_count = @ + 1, !.time_last_refreshed = t]]
  ELSE ss

\* Lines 314-334 raise before the first assignment to the Session (line 336):
\* a call that fails leaves the rows as they were.
raised_before_update(ss, payload, t) == ss

\* Lines 336-338 change the loaded Session object only.  slide_session returns
\* without db.commit() (compare lines 192, 200, 208, 309), so when the request's
\* database session is closed the pending UPDATE is dropped and the committed
\* rows are what they were.
close_without_commit(ss, r) == ss

\* The tokens a client may present as a refresh token: the refresh tokens it
\* holds and the access token of the last bundle.
Presentable == issued \cup ({last.access_token} \ {NoToken})

\* Lines 314-338: decode the refresh token, find the Session, check it.
slide_session_check(r, tok) ==
  LET d == decode_token(tok, secret_keys, now)
      s == UUID(tok.sid)
      base == [Idle EXCEPT !.op = "slide", !.tok = tok]
      call == [base EXCEPT !.session = s, !.was_dead = (s \in dead)]
      fail(c, sid, cause, e) ==
        /\ req' = req
        /\ last' = Response(c, sid, cause, e, NoToken, NoToken)
        /\ sessions' = raised_before_update(sessions, tok, now)
  IN /\ Free(r)
     /\ CASE d = "ExpiredSignatureError" -> fail(base, <<>>, {}, SessionExpired)
          [] d = "credentials_exception" -> fail(base, <<>>, {}, credentials_exception)
          [] d = "payload" /\ ~has_sid(tok) ->
               fail(base, <<>>, {}, ServerError)  \* KeyError: 'sid'
          [] d = "payload" /\ has_sid(tok) /\ refused(sessions, s, now) ->
               fail(call, tok.sid, causes(sessions, s, now), refusal(sessions, s, now))
          [] OTHER ->
               /\ req' = [req EXCEPT ![r] =
                    [call EXCEPT !.pc = "ss_issue",
                                 !.principal = sessions[s].principal_id,
                                 !.now = now, !.before = sessions[s].refresh_count,
                                 !.used = slid[s]]]
               /\ last' = last
               /\ sessions' = sessions
     /\ UNCHANGED <<now, config, principals, identities, nuuid, issued, resolver,
                    logged, slid>>
     /\ Called

\* Lines 339-367: the Principal of the Session, the new token bundle, return.
slide_session_issue(r) ==
  LET access == create_access_token(token_data(req[r].principal),
                                    signing_key(secret_keys), access_token_max_age)
      refresh == create_refresh_token(new_session_id(req[r].tok, req[r].session),
                                      signing_key(secret_keys), refresh_token_max_age)
  IN /\ req[r].pc = "ss_issue"
     /\ sessions' = close_without_commit(sessions, req[r])
     /\ req' = [req EXCEPT ![r] = Idle]
     /\ last' = Response(req[r], req[r].tok.sid, {}, Ok200, access, refresh)
     /\ issued' = issued \cup {refresh}
     /\ slid' = [slid EXCEPT ![req[r].session] = @ + 1]
     /\ UNCHANGED <<now, config, principals, identities, nuuid, resolver, logged>>
     /\ Track

\* ------------------------------------------------------------------ revoke_session
\* The session ids a caller may put in the path: the uuids generated so far
\* (Sessions and Principals) and one that was never generated.
SessionIds == {Hex(FreshUuid(n)) : n \in 0..nuuid}

\* Line 308 on the row that .first() returned: None for an unknown uuid, and
\* the assignment then raises AttributeError.
set_revoked(ss, s) ==
  IF s \in DOMAIN ss THEN [ss EXCEPT ![s].revoked = TRUE] ELSE ss

\* Lines 303-310.
revoke_session(session_id) ==
  LET s == UUID(session_id)
      call == [Idle EXCEPT !.op = "revoke", !.session = s, !.now = now]
  IN /\ sessions' = set_revoked(sessions, s)
     /\ last' = Response(call, session_id, {},
                         IF s \in DOMAIN sessions THEN Response204 ELSE ServerError,
                         NoToken, NoToken)
     /\ UNCHANGED <<now, config, principals, identities, nuuid, req, issued,
                    resolver, logged, slid>>
     /\ Called

\* ------------------------------------------------------------------ logout
\* Variant in which logging out revokes the Sessions.
after_logout_revoked(ss) == [s \in DOMAIN ss |-> [ss[s] EXCEPT !.revoked = TRUE]]

\* Lines 388-392 take no db: the Session rows after logout are the rows before.
after_logout(ss) == ss

\* Lines 388-392: the response deletes the API key cookie and the CSRF cookie.
logout ==
  /\ sessions' = after_logout(sessions)
  /\ last' = [Response([Idle EXCEPT !.op = "logout"], <<>>, {}, Ok200, NoToken, NoToken)
                 EXCEPT !.delete_cookie = {"tiled_api_key", "tiled_csrf"}]
  /\ UNCHANGED <<now, config, principals, identities, nuuid, req, issued,
                 resolver, logged, slid>>
  /\ Called

\* ------------------------------------------------------------------ environment
Tick ==
  /\ now < MaxTime
  /\ now' = now + 1
  /\ UNCHANGED <<config, store, req, issued, last, resolver, logged, slid>>
  /\ Track

\* Old Sessions are garbage-collected outside this subsystem ("forgotten").
ForgetSession(s) ==
  /\ s \in DeadNow(sessions, now)
  /\ sessions' = [x \in DOMAIN sessions \ {s} |-> sessions[x]]
  /\ UNCHANGED <<now, config, principals, identities, nuuid, req,
                 issued, last, resolver, logged, slid>>
  /\ Track

\* ------------------------------------------------------------------ get_current_principal
NoKey == "None"
ApiKeys == {NoKey, "secret", "wrong"}

NoPrincipal == [uuid |-> 0, type |-> "", identities |-> {}]

\* A request as get_current_principal sees it: the API key of each carrier
\* (NoKey for none) and the bearer token of each location (NoToken for none).
Request(q, h, c, cookie_token, header_token) ==
  [api_key_query |-> q, api_key_header |-> h, api_key_cookie |-> c,
   cookie_token |-> cookie_token, header_token |-> header_token]

NoRequest == Request(NoKey, NoKey, NoKey, NoToken, NoToken)

\* Variant of lines 129-132 that schedules the cookie on every path.
Outcome_with_cookie(kind, result, principal, token, cookies_to_set) ==
  [kind |-> kind, result |-> result, principal |-> principal, token |-> token,
   now |-> now, keys |-> secret_keys, cookies_to_set |-> TRUE,
   request |-> NoRequest, endpoint |-> "", data |-> NoPrincipal]

\* What get_current_principal returned or raised, with the clock and the key
\* list of the call.
Outcome(kind, result, principal, token, cookies_to_set) ==
  [kind |-> kind, result |-> result, principal |-> principal, token |-> token,
   now |-> now, keys |-> secret_keys, cookies_to_set |-> cookies_to_set,
   request |-> NoRequest, endpoint |-> "", data |-> NoPrincipal]

NoGate ==
  [kind |-> "none", result |-> NoResult, principal |-> NoPrincipal,
   token |-> NoToken, now |-> 0, keys |-> <<>>, cookies_to_set |-> FALSE,
   request |-> NoRequest, endpoint |-> "", data |-> NoPrincipal]

\* Variant that passes when any carrier holds the configured key.
check_any_carrier(api_key_query, api_key_header, api_key_cookie) ==
  IF settings.single_user_api_key \in {api_key_query, api_key_header, api_key_cookie}
  THEN "True"
  ELSE IF {api_key_query, api_key_header, api_key_cookie} = {NoKey} THEN "False"
  ELSE "Invalid API key"

\* Lines 113-118: the first carrier that holds a key decides.
check_single_user_api_key(api_key_query, api_key_header, api_key_cookie) ==
  LET api_key == IF api_key_query # NoKey THEN api_key_query
                 ELSE IF api_key_header # NoKey THEN api_key_header
                 ELSE api_key_cookie
  IN IF api_key = NoKey THEN "False"
     ELSE IF api_key = settings.single_user_api_key THEN "True"
     ELSE "Invalid API key"

\* Variant of line 128 that does not look at the authenticators.
is_admin_in_any_mode(authenticators, has_single_user_api_key) ==
  has_single_user_api_key = "True"

\* Line 128: single-user mode and the single-user API key.
is_admin(authenticators, has_single_user_api_key) ==
  (~authenticators) /\ has_single_user_api_key = "True"

\* Variant of lines 135-137 that prefers the Authorization header.
access_token_header_first(cookie_token, header_token) ==
  IF header_token # NoToken THEN header_token ELSE cookie_token

\* Variant of lines 156-160 without the header.
not_authenticated_bare == HTTPException(401, "Not authenticated", "")

\* Lines 156-160: the failure that carries the link to the root page, where
\* the client finds the list of authenticators.
not_authenticated == HTTPException(401, "Not authenticated", "X-Tiled-Root")

\* Variant that looks the Principal's Sessions up and resolves nobody once one
\* of them is revoked.
PrincipalOf_unless_revoked(payload) ==
  IF \E s \in DOMAIN sessions :
        /\ sessions[s].revoked
        /\ principals[sessions[s].principal_id].uuid = UUID(payload.sub)
  THEN NoPrincipal
  ELSE [uuid |-> UUID(payload.sub), type |-> payload.sub_typ, identities |-> payload.ids]

\* Lines 168-175: the Principal rebuilt from the claims.
PrincipalOf(payload) ==
  [uuid |-> UUID(payload.sub), type |-> payload.sub_typ, identities |-> payload.ids]

\* A token some other party signed with a key of its own.
Forged(tok) == [tok EXCEPT !.key = 0]

\* The bearer tokens a request may carry: the tokens of the last bundle, a
\* forged copy of its access token, the token the codec decoded last, and
\* NoToken for none.
Bearers ==
  ({last.access_token, last.refresh_token, Forged(last.access_token), codec.token}
     \ {NoToken, Forged(NoToken)}) \cup {NoToken}

\* Lines 135-137: the cookie's token, the header's when there is no cookie.
access_token_from_either_location(cookie_token, header_token) ==
  IF cookie_token # NoToken THEN cookie_token ELSE header_token

\* Lines 128-175: what get_current_principal returns or raises.
current_principal(q, h, c, cookie_token, header_token) ==
  LET has_single_user_api_key == check_single_user_api_key(q, h, c)
      tok == access_token_from_either_location(cookie_token, header_token)
      d == decode_token(tok, secret_keys, now)
  IN      IF has_single_user_api_key = "Invalid API key"
          THEN Outcome("error", HTTPException(401, "Invalid API key", ""),
                       NoPrincipal, NoToken, FALSE)
          ELSE IF is_admin(settings.authenticators, has_single_user_api_key)
          THEN Outcome("admin", Ok200, NoPrincipal, NoToken,
                       c # settings.single_user_api_key)
          ELSE IF tok = NoToken
          THEN IF settings.allow_anonymous_access
               THEN Outcome("public", Ok200, NoPrincipal, NoToken, FALSE)
               ELSE Outcome("error", not_authenticated, NoPrincipal, NoToken, FALSE)
          ELSE IF d = "ExpiredSignatureError"
          THEN Outcome("error",
                       HTTPException(401, "Access token has expired. Refresh token.", ""),
                       NoPrincipal, tok, FALSE)
          ELSE IF d = "credentials_exception"
          THEN Outcome("error", credentials_exception, NoPrincipal, tok, FALSE)
          ELSE IF ~has_sub(tok)
          THEN Outcome("error", ServerError, NoPrincipal, tok, FALSE)  \* KeyError: 'sub'
          ELSE Outcome("principal", Ok200, PrincipalOf(tok), tok, FALSE)

\* Lines 121-175.
get_current_principal(q, h, c, cookie_token, header_token) ==
  /\ gate' = [current_principal(q, h, c, cookie_token, header_token)
                 EXCEPT !.request = Request(q, h, c, cookie_token, header_token)]
  /\ UNCHANGED <<now, config, store, req, issued, last, codec, logged, slid>>
  /\ Called

\* ------------------------------------------------------------------ whoami
\* Lines 381-383: the Principal rows with this uuid.
principal_by_uuid(u) == {pid \in DOMAIN principals : principals[pid].uuid = u}

\* Lines 384-385: the Principal's record with its Identities, from the store.
principal_model(pid) ==
  [uuid |-> principals[pid].uuid, type |-> principals[pid].type,
   identities |-> identities_of(pid)]

\* Lines 370-385.  The dependency get_current_principal runs first; what it
\* raises is the response.  It returns a Principal or one of the sentinels
\* SpecialUsers.public and SpecialUsers.admin, never None, so the test of line
\* 377 does not hold and line 382 reads principal.uuid, which a sentinel does
\* not have (AttributeError).
whoami(q, h, c, cookie_token, header_token) ==
  LET p == current_principal(q, h, c, cookie_token, header_token)
      found == principal_by_uuid(p.principal.uuid)
      answer == [p EXCEPT !.request = Request(q, h, c, cookie_token, header_token),
                          !.endpoint = "whoami"]
  IN /\ gate' =
          IF p.kind = "error" THEN answer
          ELSE IF p.kind \in {"public", "admin"}
          THEN [answer EXCEPT !.result = ServerError]
          ELSE IF found = {}
          THEN [answer EXCEPT !.result = ServerError]  \* from_orm(None)
          ELSE [answer EXCEPT !.data = principal_model(CHOOSE pid \in found : TRUE)]
     /\ UNCHANGED <<now, config, store, req, issued, last, codec, logged, slid>>
     /\ Called

\* ------------------------------------------------------------------ key rotation
NoCodec ==
  [outcome |-> "none", token |-> NoToken, keys |-> <<>>, now |-> 0, tried |-> 0]

Keys == 1..MaxKeys

\* The key lists of a deployment: the current key, and the one retained from
\* the prior rotation if there was one.
KeyLists ==
  {<<k>> : k \in Keys} \cup {q \in Keys \X Keys : q[1] # q[2]}

\* The tokens of the codec specification: refresh and access tokens signed
\* with any key, with any exp.
CodecTokens ==
  {[type |-> "refresh", key |-> k, exp |-> e, sid |-> Hex(FreshUuid(0)),
    sub |-> <<>>, sub_typ |-> "", ids |-> {}] : k \in Keys, e \in 0..MaxTime}
  \cup
  {[type |-> "access", key |-> k, exp |-> e, sid |-> <<>>,
    sub |-> Hex(FreshUuid(0)), sub_typ |-> "user", ids |-> {}] : k \in Keys, e \in 0..MaxTime}

\* decode_token(token, settings.secret_keys) called at the current time.
Decode(token) ==
  /\ codec' = [outcome |-> decode_token(token, secret_keys, now), token |-> token,
               keys |-> secret_keys, now |-> now,
               tried |-> keys_tried(token, secret_keys, 1, now)]
  /\ UNCHANGED <<now, config, store, req, issued, last, gate, logged, slid>>
  /\ Track

\* The operator puts a new key first and retains the previous current key.
RotateKeys(k) ==
  /\ k # secret_keys[1]
  /\ secret_keys' = <<k, secret_keys[1]>>
  /\ UNCHANGED <<now, settings, store, req, issued, last, resolver, logged, slid>>
  /\ Track

\* ------------------------------------------------------------------ specification

InitStore ==
  /\ principals = [x \in {} |-> 0]
  /\ identities = {}
  /\ sessions = [x \in {} |-> 0]
  /\ nuuid = 0
  /\ req = [r \in Req |-> Idle]
  /\ issued = {}
  /\ last = NoResponse
  /\ dead = {}
  /\ logged = [k \in Providers \X Ids |-> {}]
  /\ slid = [x \in {} |-> 0]
  /\ calls = 0

Init ==
  /\ now = 0
  /\ secret_keys = <<1>>
  /\ settings = [authenticators |-> TRUE, allow_anonymous_access |-> FALSE,
                 single_user_api_key |-> "secret"]
  /\ gate = NoGate
  /\ codec = NoCodec
  /\ InitStore

Next ==
  \/ \E r \in Req, provider \in Providers, id \in Ids : create_session_lookup(r, provider, id)
  \/ \E r \in Req : create_session_principal(r)
  \/ \E r \in Req : create_session_identity(r)
  \/ \E r \in Req : create_session_tokens(r)
  \/ \E r \in Req : \E tok \in Presentable : slide_session_check(r, tok)
  \/ \E r \in Req : slide_session_issue(r)
  \/ \E session_id \in SessionIds : revoke_session(session_id)
  \/ Tick
  \/ \E s \in DOMAIN sessions : ForgetSession(s)

Spec == Init /\ [][Next]_vars

\* The session specification with clients that log out.
NextLogout == Next \/ logout

SpecLogout == Init /\ [][NextLogout]_vars

\* The session specification with an operator who rotates the keys, each time
\* putting a key never used before first: the tokens signed with the key that
\* is dropped verify under no key of the list.
NextDropped ==
  \/ Next
  \/ \E k \in Keys \cap {secret_keys[1] + 1} : RotateKeys(k)

SpecDropped == Init /\ [][NextDropped]_vars

\* The logins finished so far, and the access tokens they returned.
Logins == UNION {logged[k] : k \in DOMAIN logged}
Held == issued \cup {l.access_token : l \in Logins}

\* The session specification with requests that carry, as their bearer token,
\* a token a client got from a login or a slide.
NextHeld ==
  \/ Next
  \/ \E header_token \in Held :
        get_current_principal(NoKey, NoKey, NoKey, NoToken, header_token)

SpecHeld == Init /\ [][NextHeld]_vars

\* The resolver specification: concurrent logins, the clock, and requests
\* resolved by get_current_principal under every mode of the deployment; the
\* requests carry their API key in the cookie and their token in the header.
InitGate ==
  /\ now = 0
  /\ secret_keys = <<1>>
  /\ settings \in [authenticators : BOOLEAN, allow_anonymous_access : BOOLEAN,
                   single_user_api_key : {"secret"}]
  /\ gate = NoGate
  /\ codec = NoCodec
  /\ InitStore

NextGate ==
  \/ \E r \in Req, provider \in Providers, id \in Ids : create_session_lookup(r, provider, id)
  \/ \E r \in Req : create_session_principal(r)
  \/ \E r \in Req : create_session_identity(r)
  \/ \E r \in Req : create_session_tokens(r)
  \/ Tick
  \/ \E c \in ApiKeys, header_token \in Bearers :
          get_current_principal(NoKey, NoKey, c, NoToken, header_token)

SpecGate == InitGate /\ [][NextGate]_vars

\* The codec specification: decode_token over every key list, token and time.
InitCodec ==
  /\ now \in 0..MaxTime
  /\ secret_keys \in KeyLists
  /\ settings = [authenticators |-> TRUE, allow_anonymous_access |-> FALSE,
                 single_user_api_key |-> "secret"]
  /\ gate = NoGate
  /\ codec = NoCodec
  /\ InitStore

NextCodec ==
  \/ \E token \in CodecTokens : Decode(token)
  \/ \E k \in Keys : RotateKeys(k)
  \/ Tick

SpecCodec == InitCodec /\ [][NextCodec]_vars

\* The request specification: one client logs in, time passes, and one
\* request of any shape (every API key carrier, both token locations) is
\* resolved in any state reached.  get_current_principal keeps nothing from
\* one request to the next, so one request per run shows them all.
NextRequest ==
  \/ \E id \in Ids : create_session_lookup(1, "p", id)
  \/ create_session_principal(1)
  \/ create_session_identity(1)
  \/ create_session_tokens(1)
  \/ Tick
  \/ /\ gate = NoGate
     /\ \E q \in ApiKeys, h \in ApiKeys, c \in ApiKeys :
          \E cookie_token \in Bearers, header_token \in Bearers :
             get_current_principal(q, h, c, cookie_token, header_token)

SpecRequest == InitGate /\ [][NextRequest]_vars

\* The whoami specification: one client logs in, time passes, and one whoami
\* request is answered in any state reached, in every mode of the deployment.
NextWhoami ==
  \/ \E id \in Ids : create_session_lookup(1, "p", id)
  \/ create_session_principal(1)
  \/ create_session_identity(1)
  \/ create_session_tokens(1)
  \/ Tick
  \/ /\ gate = NoGate
     /\ \E c \in ApiKeys, cookie_token \in Bearers, header_token \in Bearers :
          whoami(NoKey, NoKey, c, cookie_token, header_token)

SpecWhoami == InitGate /\ [][NextWhoami]_vars

\* The rotation specification: logins and slides while the operator rotates
\* the keys, each time putting a key never used before first.
NextRotation ==
  \/ \E r \in Req, provider \in Providers, id \in Ids : create_session_lookup(r, provider, id)
  \/ \E r \in Req : create_session_principal(r)
  \/ \E r \in Req : create_session_identity(r)
  \/ \E r \in Req : create_session_tokens(r)
  \/ \E r \in Req : \E tok \in Presentable : slide_session_check(r, tok)
  \/ \E r \in Req : slide_session_issue(r)
  \/ \E k \in Keys \cap {secret_keys[1] + 1} : RotateKeys(k)

SpecRotation == Init /\ [][NextRotation]_vars

\* The expiry specification: one deployment (key list, clock), the tokens of
\* the codec decoded by decode_token and presented to get_current_principal.
NextExpiry ==
  \/ \E token \in CodecTokens : Decode(token)
  \/ \E cookie_token \in Bearers, header_token \in Bearers :
          get_current_principal(NoKey, NoKey, NoKey, cookie_token, header_token)

SpecExpiry == InitCodec /\ [][NextExpiry]_vars

\* ------------------------------------------------------------------ properties
NoBundle(resp) == resp.access_token = NoToken /\ resp.refresh_token = NoToken

\* C1: a slide_session refused because the Session is missing, revoked or
\* expired answers with one and the same error payload (status, message,
\* headers) and no tokens, whichever of the three causes applies.
C1_SameRefusal ==
  (last.op = "slide" /\ last.cause # {}) =>
     (last.result = SessionExpired /\ NoBundle(last))

\* C1 happens: a slide was refused because its Session is revoked (and only so).
C1_RevokedRefused ==
  last.op = "slide" /\ last.cause = {"revoked"} /\ last.result.status = 401

\* C2: a slide_session that starts after its Session was revoked, or after the
\* clock passed its expiration_time, never gets to issue tokens: it fails and
\* returns no bundle, whatever happened in between.
C2_DeadIsTerminal ==
  /\ \A r \in Req : req[r].pc = "ss_issue" => ~req[r].was_dead
  /\ (last.op = "slide" /\ last.was_dead) =>
        (last.result.status = 401 /\ NoBundle(last))

\* C2 happens: a slide on a Session that had been revoked or had expired before
\* the call started was answered.
C2_SlideOnDead ==
  last.op = "slide" /\ last.was_dead /\ last.tok.type = "refresh"

\* C3: once no slide_session is in flight on a Session, its refresh_count in
\* the store equals the number of slides that succeeded on it (its initial
\* value is 0): no increment is lost.
C3_NoLostIncrement ==
  \A s \in DOMAIN sessions :
     (\A r \in Req : ~(req[r].op = "slide" /\ req[r].session = s))
        => sessions[s].refresh_count = slid[s]

\* C4: every create_session returns a token bundle, also the loser of a race of
\* two first logins for one identity, and once no create_session is in flight
\* each Principal has its Identity (one new Principal, one new Identity).
C4_RaceIsRetried ==
  /\ last.op = "create" => last.result = Ok200
  /\ InFlight("create") = {} => Cardinality(DOMAIN principals) = Cardinality(identities)

\* C5: after a successful slide_session the store holds the Session with
\* refresh_count one greater than before the call and time_last_refreshed
\* equal to the time of the call.
C5_SlideIsCommitted ==
  (/\ last.op = "slide"
   /\ last.result = Ok200
   /\ last.session \in DOMAIN sessions
   /\ slid[last.session] = last.before + 1)
  => /\ sessions[last.session].refresh_count = last.before + 1
     /\ sessions[last.session].time_last_refreshed = last.now

\* C6: the step of slide_session that returns the bundle returns a refresh
\* token carrying the session id of the presented refresh token, together with
\* an access token, and creates no Session.
C6_SameSession ==
  [][\A r \in Req :
        (req[r].pc = "ss_issue" /\ req'[r].pc = "idle") =>
           /\ last'.refresh_token.type = "refresh"
           /\ last'.refresh_token.sid = req[r].tok.sid
           /\ last'.access_token.type = "access"
           /\ DOMAIN sessions' \subseteq DOMAIN sessions
           /\ nuuid' = nuuid]_vars

\* C6 happens: a slide returned a bundle.
C6_Slid ==
  last.op = "slide" /\ last.result = Ok200 /\ last.refresh_token.sid = last.tok.sid

\* C7: revoke_session returns 204 for every session id, also for one that no
\* Session has and for a Session that is revoked already.
C7_RevokeIsTotal ==
  last.op = "revoke" => last.result = Response204

\* C8: a create_session that starts after a login for the same (provider, id)
\* has finished returns a bundle, creates no Principal and no Identity, and
\* its Session is another one than that login's, for the same Principal.
C8_SecondLogin ==
  (last.op = "create" /\ last.prior # {}) =>
     /\ last.result = Ok200
     /\ ~last.new
     /\ \A p \in last.prior : p.principal = last.principal /\ p.session # last.session
     /\ Cardinality(find_identity(last.provider, last.id)) = 1

\* C8 happens: a second login for an identity returned its bundle.
C8_LoggedInTwice ==
  last.op = "create" /\ last.prior # {} /\ last.result = Ok200

\* C9: when get_current_principal decodes the access token that the last
\* create_session returned, before the token expires, it yields a Principal
\* whose uuid is that of the Principal the Identity (provider, id) belongs to.
C9_GateResolvesLogin ==
  (/\ gate.kind # "none"
   /\ gate.token # NoToken
   /\ last.op = "create"
   /\ last.result = Ok200
   /\ gate.token = last.access_token
   /\ gate.token.exp >= gate.now)
  => /\ gate.kind = "principal"
     /\ gate.principal.uuid = principals[last.principal].uuid
     /\ \E i \in find_identity(last.provider, last.id) : i.principal_id = last.principal

\* C9 happens: the access token of a login for an identity seen before (its
\* Principal reused) was resolved.
C9_KnownResolved ==
  /\ gate.kind = "principal"
  /\ last.op = "create"
  /\ gate.token = last.access_token
  /\ ~last.new
  /\ last.prior # {}

\* C10: an unexpired token decodes with every key list that holds its key, at
\* any position, and fails with credentials_exception, never with
\* ExpiredSignatureError, with every key list that does not.
C10_KeyRotation ==
  (codec.outcome # "none" /\ codec.token.exp >= codec.now) =>
     IF \E i \in 1..Len(codec.keys) : codec.keys[i] = codec.token.key
     THEN codec.outcome = "payload"
     ELSE codec.outcome = "credentials_exception"

\* C10 happens: a token signed with the retained key, not the current one, was
\* decoded.
C10_RetainedKey ==
  /\ codec.outcome = "payload"
  /\ Len(codec.keys) = 2
  /\ codec.keys[2] = codec.token.key
  /\ codec.keys[1] # codec.token.key

\* C11: a token whose signature one of the configured keys verifies, at any
\* position, and whose exp has passed makes decode_token raise
\* ExpiredSignatureError at that key, no later key being tried, and makes
\* get_current_principal fail with 'Access token has expired. Refresh token.',
\* not with credentials_exception.
C11_ExpiryNotMasked ==
  /\ (/\ codec.outcome # "none"
      /\ codec.token.exp < codec.now
      /\ \E i \in 1..Len(codec.keys) : codec.keys[i] = codec.token.key)
     => /\ codec.outcome = "ExpiredSignatureError"
        /\ codec.keys[codec.tried] = codec.token.key
        /\ \A i \in 1..(codec.tried - 1) : codec.keys[i] # codec.token.key
  /\ (/\ gate.token # NoToken
      /\ gate.token.exp < gate.now
      /\ \E i \in 1..Len(gate.keys) : gate.keys[i] = gate.token.key)
     => gate.result = HTTPException(401, "Access token has expired. Refresh token.", "")

\* C11 happens: an expired token that the second key verifies, the first one
\* not, was decoded and then presented to get_current_principal.
C11_ExpiredUnderRetainedKey ==
  /\ codec.outcome = "ExpiredSignatureError"
  /\ Len(codec.keys) = 2
  /\ codec.keys[1] # codec.token.key
  /\ gate.token = codec.token
  /\ gate.kind = "error"

\* C12: the step of create_session and the step of slide_session that return
\* the bundle sign its access token and its refresh token with the first key
\* of the key list, whatever key signed the refresh token presented.
C12_FirstKeySigns ==
  [][\A r \in Req :
        (req[r].pc \in {"cs_session", "ss_issue"} /\ req'[r].pc = "idle") =>
           /\ last'.access_token.key = secret_keys[1]
           /\ last'.refresh_token.key = secret_keys[1]
           /\ \A t \in issued' \ issued : t.key = secret_keys[1]]_vars

\* C12 happens: a slide was given a refresh token signed with a key that is
\* no longer the first one, and returned a bundle.
C12_SlidAfterRotation ==
  /\ last.op = "slide"
  /\ last.result = Ok200
  /\ last.tok.key # last.refresh_token.key
  /\ Len(secret_keys) = 2

\* C13: a request with no API key in any carrier and no bearer token in either
\* location gets the Public sentinel when anonymous access is allowed, and
\* otherwise the 401 'Not authenticated' carrying the X-Tiled-Root header; the
\* step leaves the store as it was.
C13_NoCredentials ==
  [][(gate' # gate /\ gate'.request = NoRequest) =>
        /\ IF settings.allow_anonymous_access
           THEN gate'.kind = "public" /\ gate'.result = Ok200
           ELSE /\ gate'.kind = "error"
                /\ gate'.result = HTTPException(401, "Not authenticated", "X-Tiled-Root")
        /\ gate'.principal = NoPrincipal
        /\ store' = store]_vars

\* C13 happens: a request without credentials was refused with the hint.
C13_Unauthenticated ==
  /\ gate.kind = "error"
  /\ gate.request = NoRequest
  /\ gate.result.detail = "Not authenticated"
  /\ ~settings.allow_anonymous_access

Presents(request, key) ==
  key \in {request.api_key_query, request.api_key_header, request.api_key_cookie}

\* C14: a get_current_principal step, on every path and in every mode, leaves
\* the Principal, Identity and Session records as they were; its only effect
\* beside its result is the API-key cookie scheduled on the admin path.
C14_GateKeepsStore ==
  [][gate' # gate =>
        /\ store' = store
        /\ <<issued', last', req'>> = <<issued, last, req>>
        /\ gate'.cookies_to_set => gate'.kind = "admin"]_vars

\* C14 happens: with Sessions in the store, a request was resolved on the
\* admin path and the cookie scheduled.
C14_AdminCookie ==
  gate.kind = "admin" /\ gate.cookies_to_set /\ DOMAIN sessions # {}

C16_MalformedClaims ==
  (/\ gate.kind # "none"
   /\ gate.token.type = "refresh"
   /\ gate.token.exp >= gate.now
   /\ \E i \in 1..Len(gate.keys) : gate.keys[i] = gate.token.key)
  => gate.result = credentials_exception

\* C19: when the cookie and the Authorization header both carry a token, the
\* outcome is the one of the same request without the header's token.
C19_CookieFirst ==
  [][(/\ gate' # gate
      /\ gate'.request.cookie_token # NoToken
      /\ gate'.request.header_token # NoToken)
     => LET r == gate'.request
        IN [gate' EXCEPT !.request = NoRequest] =
              current_principal(r.api_key_query, r.api_key_header, r.api_key_cookie,
                                r.cookie_token, NoToken)]_vars

\* C19 happens: the cookie held a forged token, the header the valid access
\* token of the login, and the request was refused.
C19_BadCookieGoodHeader ==
  /\ gate.request.header_token = last.access_token
  /\ gate.request.header_token # NoToken
  /\ gate.request.cookie_token = Forged(last.access_token)
  /\ gate.request.header_token.exp >= gate.now
  /\ gate.result = credentials_exception

\* C17: whoami answers a request that resolves to a Principal with that
\* Principal's record and Identities as the store holds them, and a request
\* that resolves to the Public principal with an empty result, without
\* failing.
C17_Whoami ==
  gate.endpoint = "whoami" =>
     /\ gate.kind = "principal" =>
           /\ gate.result = Ok200
           /\ gate.data.uuid = gate.principal.uuid
           /\ \E pid \in principal_by_uuid(gate.data.uuid) :
                 gate.data.identities \subseteq identities_of(pid)
     /\ gate.kind = "public" => (gate.result = Ok200 /\ gate.data = NoPrincipal)

\* Would slide_session return a bundle for this refresh token, with these
\* Session rows at this time?
Accepted(tok, ss, t) ==
  /\ decode_token(tok, secret_keys, t) = "payload"
  /\ tok.type = "refresh"
  /\ ~refused(ss, UUID(tok.sid), t)

\* C18: a logout step leaves every Session record as it was, so every refresh
\* token that slide_session would accept before it is accepted after it.
C18_LogoutKeepsSessions ==
  [][(last'.op = "logout" /\ calls' = calls + 1) =>
        /\ sessions' = sessions
        /\ \A tok \in issued : Accepted(tok, sessions, now) => Accepted(tok, sessions', now')]_vars

\* C18 happens: a client logged out while a refresh token of an active Session
\* was out.
C18_LoggedOutActive ==
  /\ last.op = "logout"
  /\ \E tok \in issued : Accepted(tok, sessions, now)

\* The login that created Session s.
Login(s) == CHOOSE l \in UNION {logged[k] : k \in DOMAIN logged} : l.session = s

\* C20: a Session's expiration_time is its creation time + session_max_age in
\* every state, and no slide_session whose check is made after that time gets
\* to return a bundle, whatever slides succeeded before.
C20_HardLifetime ==
  /\ \A s \in DOMAIN sessions :
        sessions[s].expiration_time = Login(s).at + session_max_age
  /\ \A r \in Req :
        req[r].pc = "ss_issue" => req[r].now <= Login(req[r].session).at + session_max_age
  /\ (last.op = "slide" /\ last.result = Ok200) =>
        last.now <= Login(last.session).at + session_max_age

\* C20 happens: a Session that had been slid was refused once its
\* expiration_time had passed.
C20_ExpiredAfterSlide ==
  /\ last.op = "slide"
  /\ last.cause = {"expired"}
  /\ last.session \in DOMAIN slid
  /\ slid[last.session] >= 1

\* C21: create_session for a new identity is all-or-nothing: in no state does
\* the store hold a Principal created by create_session without an Identity
\* linked to it.
C21_AllOrNothing ==
  \A pid \in DOMAIN principals : identities_of(pid) # {}

\* C22: no two Identity rows have the same (provider, id), and every Identity
\* row belongs to one Principal of the store.
C22_UniqueIdentity ==
  /\ \A i \in identities : \A j \in identities :
        (i.provider = j.provider /\ i.id = j.id) => i = j
  /\ \A i \in identities : i.principal_id \in DOMAIN principals

\* C22 happens: two first logins for one (provider, id) raced, and the second
\* Identity commit was turned down.
C22_RacedLogins ==
  /\ last.op = "create"
  /\ last.new
  /\ last.result = ServerError
  /\ find_identity(last.provider, last.id) # {}

\* C23: revoked is one-way: no step, slide_session's closing step included,
\* takes a stored Session from revoked = TRUE to revoked = FALSE.
C23_RevokedIsOneWay ==
  [][\A s \in DOMAIN sessions :
        (sessions[s].revoked /\ s \in DOMAIN sessions') => sessions'[s].revoked]_vars

\* C23 happens: a slide_session that passed the check of its Session returned
\* its bundle after the Session had been revoked, and the Session is revoked.
C23_SlidAcrossRevoke ==
  /\ last.op = "slide"
  /\ last.result = Ok200
  /\ last.session \in DOMAIN sessions
  /\ sessions[last.session].revoked

\* C24: the ids claim of the access token of every bundle create_session or
\* slide_session returns is exactly the set of Identities its Principal has in
\* the store when the token is made, and after a first login it holds the
\* Identity just created.
C24_IdsAtIssue ==
  [][(last' # last /\ last'.op \in {"create", "slide"} /\ last'.result = Ok200) =>
        /\ last'.access_token.sub = Hex(principals[last'.principal].uuid)
        /\ last'.access_token.ids = identities_of(last'.principal)
        /\ last'.access_token.ids =
              {[id |-> i.id, idp |-> i.provider] :
                  i \in {j \in identities' : j.principal_id = last'.principal}}
        /\ last'.new =>
              [id |-> last'.id, idp |-> last'.provider] \in last'.access_token.ids]_vars

\* C24 happens: a first login returned an access token that names the new
\* Identity.
C24_FirstLoginIds ==
  /\ last.op = "create"
  /\ last.new
  /\ last.result = Ok200
  /\ last.access_token.ids = {[id |-> last.id, idp |-> last.provider]}

\* C25: revocation does not reach access tokens: an access token a login
\* returned resolves to the login's Principal whenever its own exp has not
\* passed, whether or not the login's Session has been revoked.
C25_RevokeSparesAccess ==
  \A l \in Logins :
     (gate.kind # "none" /\ gate.token = l.access_token /\ gate.token.exp >= gate.now) =>
        /\ gate.kind = "principal"
        /\ gate.principal.uuid = principals[l.principal].uuid

\* C25 happens: a Session was revoked, the clock moved on, and the access
\* token of its login resolved to its Principal.
C25_ResolvedAfterRevoke ==
  /\ last.op = "revoke"
  /\ last.result = Response204
  /\ last.now < gate.now
  /\ gate.kind = "principal"
  /\ \E l \in Logins : l.session = last.session /\ l.access_token = gate.token

\* C26: a token is never accepted as the other kind: slide_session given an
\* access token never gets to issue a bundle and changes no Session, and
\* get_current_principal given a refresh token never returns a Principal.
C26_KindsKept ==
  [][/\ \A r \in Req :
          (req[r].pc = "idle" /\ req'[r].pc = "ss_issue") => req'[r].tok.type = "refresh"
     /\ (last' # last /\ last'.op = "slide" /\ last'.tok.type = "access") =>
          (sessions' = sessions /\ NoBundle(last') /\ last'.result.status # 200)
     /\ (gate' # gate /\ gate'.token.type = "refresh") => gate'.kind # "principal"]_vars

\* C26 happens: slide_session was given an access token whose signature and
\* exp are good, and get_current_principal a refresh token likewise.
C26_BothCrossed ==
  /\ last.op = "slide"
  /\ last.tok.type = "access"
  /\ last.result = ServerError
  /\ gate.token.type = "refresh"
  /\ gate.result = ServerError

\* A refresh token that is unexpired, signed with a key of the list, and whose
\* Session is in the store, not revoked and not expired.
Usable(tok) ==
  /\ tok.type = "refresh"
  /\ \E i \in 1..Len(secret_keys) : secret_keys[i] = tok.key
  /\ tok.exp >= now
  /\ UUID(tok.sid) \in DOMAIN sessions
  /\ ~sessions[UUID(tok.sid)].revoked
  /\ sessions[UUID(tok.sid)].expiration_time >= now

\* C27: refresh tokens are not single-use: a slide_session that fails was not
\* given a usable refresh token, however often the token or its Session was
\* slid before, and a slide_session that passed its check returns a bundle.
C27_NotSingleUse ==
  [][/\ (last' # last /\ last'.op = "slide" /\ last'.result.status # 200) =>
           ~Usable(last'.tok)
     /\ \A r \in Req :
           (req[r].pc = "ss_issue" /\ req'[r].pc = "idle") =>
              (last'.result = Ok200 /\ ~NoBundle(last'))]_vars

\* C27 happens: the refresh token of the login was accepted again after a
\* slide of its Session had returned, while another unexpired refresh token of
\* the Session was out.
C27_PresentedAgain ==
  /\ last.op = "slide"
  /\ last.result = Ok200
  /\ last.used >= 1
  /\ last.tok.exp = Login(last.session).at + refresh_token_max_age
  /\ \E t \in issued : t # last.tok /\ t.sid = last.tok.sid /\ t.exp >= last.now

\* C28: a slide_session that fails leaves the store as it was (no Session
\* row differs, no row is added or removed) and issues no token.
C28_FailedSlideKeepsStore ==
  [][(last' # last /\ last'.op = "slide" /\ last'.result.status # 200) =>
        /\ sessions' = sessions
        /\ principals' = principals
        /\ identities' = identities
        /\ issued' = issued
        /\ NoBundle(last')]_vars

\* C28 happens: a slide_session failed on a refresh token that verifies under
\* no key of the list, while its Session is in the store and active.
C28_FailedOnSignature ==
  /\ last.op = "slide"
  /\ last.result = credentials_exception
  /\ last.tok.type = "refresh"
  /\ UUID(last.tok.sid) \in DOMAIN sessions
  /\ ~refused(sessions, UUID(last.tok.sid), now)

\* The API key of the first carrier of a request that holds one, in the order
\* query parameter, header, cookie; NoKey when none does.
FirstKey(request) ==
  IF request.api_key_query # NoKey THEN request.api_key_query
  ELSE IF request.api_key_header # NoKey THEN request.api_key_header
  ELSE request.api_key_cookie

InvalidApiKey(result) == result.status = 401 /\ result.detail = "Invalid API key"

\* C29: the first carrier that holds an API key decides the check: when that
\* key differs from the configured one the request fails with 'Invalid API
\* key', whatever the later carriers, the mode and the bearer tokens are; when
\* it matches, or when no carrier holds a key, the request is not failed by
\* this check.
C29_FirstCarrierDecides ==
  gate.kind # "none" =>
     LET first == FirstKey(gate.request)
     IN IF first # NoKey /\ first # settings.single_user_api_key
        THEN gate.kind = "error" /\ InvalidApiKey(gate.result)
        ELSE ~InvalidApiKey(gate.result)

\* C29 happens: with identity providers configured, a request with a wrong key
\* in the query parameter, the configured key in the cookie and a good access
\* token in the header failed with 'Invalid API key'.
C29_WrongKeyFirst ==
  /\ settings.authenticators
  /\ gate.request.api_key_query = "wrong"
  /\ gate.request.api_key_cookie = settings.single_user_api_key
  /\ gate.request.header_token.type = "access"
  /\ decode_token(gate.request.header_token, gate.keys, gate.now) = "payload"
  /\ InvalidApiKey(gate.result)

====
